---------------------------- MODULE Spec2Model ----------------------------
(***************************************************************************)
(* Model of the CPU scheduling simulator of src/parta.c: the PCB table     *)
(* built by init_procs, the time-advancement rule run_proc, the            *)
(* round-robin successor rule rr_next and the two drivers fcfs_run and     *)
(* rr_run.  Indices are zero-based as in the C code; the PCB array is a    *)
(* TLA+ sequence, so element i of the array is procs[i + 1].               *)
(***************************************************************************)
EXTENDS Integers, Sequences, FiniteSets, TLC

(***************************************************************************)
(* Bounds of the model.                                                    *)
(***************************************************************************)
MaxProcs == 3
MaxBurst == 3
MaxQuantum == 4
MaxArgs == 4

\* Burst values handed to init_procs: no validation, so negative and zero
\* values are inputs too.
BurstValues == -1..MaxBurst

\* The scenarios spelled out in section 8 of the specification.
Scenarios == { <<5, 3, 8>>, <<7>>, <<5, 5>> }

BurstSeqs ==
    UNION { [1..n -> BurstValues] : n \in 0..MaxProcs } \cup Scenarios

\* Quantum values handed to rr_run, the invalid ones (<= 0) included.
QuantumValues == -1..MaxQuantum

\* Index arguments: -1 ("none"), every valid index, and one past the end.
IndexValues == -1..MaxProcs

\* Amount arguments handed to run_proc directly.
AmountValues == -1..(MaxBurst + 1)

(***************************************************************************)
(* The PCB table.  A NULL pointer is the empty sequence.                   *)
(***************************************************************************)
NULL == <<>>

\* The range of int.
MaxInt == 2147483647
MinInt == -MaxInt - 1

\* a + b on int.  The C standard leaves a sum outside the range of int
\* undefined; the build wraps it around (two's complement), which is what
\* this gives, without an intermediate value outside the range.
AddInt(a, b) ==
    IF a > 0 /\ b > 0 /\ a > MaxInt - b
    THEN (a + MinInt) + (b + MinInt)
    ELSE IF a < 0 /\ b < 0 /\ a < MinInt - b
    THEN (a - MinInt) + (b - MinInt)
    ELSE a + b

\* struct pcb* init_procs(int* bursts, int blen); allocated tells whether its
\* malloc returned a block.
InitProcs(bursts, blen, allocated) ==
    IF blen <= 0 \/ bursts = NULL
    THEN NULL
    ELSE IF ~allocated
    THEN NULL
    ELSE [k \in 1..blen |->
            [pid |-> k - 1, burst_left |-> bursts[k], wait |-> 0]]

\* run_proc that finishes the current process whatever the amount.
RunProc_Finish(procs, plen, current, amount) ==
    IF procs = NULL \/ plen <= 0 \/ current < 0 \/ current >= plen \/ amount <= 0
    THEN procs
    ELSE LET remaining == procs[current + 1].burst_left IN
         IF remaining <= 0
         THEN procs
         ELSE [k \in 1..Len(procs) |->
                 IF k - 1 = current
                 THEN [procs[k] EXCEPT !.burst_left = 0]
                 ELSE IF k - 1 < plen /\ procs[k].burst_left > 0
                      THEN [procs[k] EXCEPT !.wait = AddInt(@, remaining)]
                      ELSE procs[k]]

\* run_proc without the "if (i == current) continue": the running process
\* is charged wait time like the others.
RunProc_WaitCurrent(procs, plen, current, amount) ==
    IF procs = NULL \/ plen <= 0 \/ current < 0 \/ current >= plen \/ amount <= 0
    THEN procs
    ELSE LET remaining == procs[current + 1].burst_left IN
         IF remaining <= 0
         THEN procs
         ELSE LET used == IF amount > remaining THEN remaining ELSE amount
              IN  [k \in 1..Len(procs) |->
                     IF k - 1 = current
                     THEN [procs[k] EXCEPT !.burst_left = remaining - used,
                                           !.wait = AddInt(@, used)]
                     ELSE IF k - 1 < plen /\ procs[k].burst_left > 0
                          THEN [procs[k] EXCEPT !.wait = AddInt(@, used)]
                          ELSE procs[k]]

\* run_proc charging wait time to every other process, finished or not.
RunProc_WaitFinished(procs, plen, current, amount) ==
    IF procs = NULL \/ plen <= 0 \/ current < 0 \/ current >= plen \/ amount <= 0
    THEN procs
    ELSE LET remaining == procs[current + 1].burst_left IN
         IF remaining <= 0
         THEN procs
         ELSE LET used == IF amount > remaining THEN remaining ELSE amount
              IN  [k \in 1..Len(procs) |->
                     IF k - 1 = current
                     THEN [procs[k] EXCEPT !.burst_left = remaining - used]
                     ELSE IF k - 1 < plen
                          THEN [procs[k] EXCEPT !.wait = AddInt(@, used)]
                          ELSE procs[k]]

\* run_proc without the "remaining <= 0" return.
RunProc_NoRemainingGuard(procs, plen, current, amount) ==
    IF procs = NULL \/ plen <= 0 \/ current < 0 \/ current >= plen \/ amount <= 0
    THEN procs
    ELSE LET remaining == procs[current + 1].burst_left
             used == IF amount > remaining THEN remaining ELSE amount
             left == remaining - used
             clamped == IF left < 0 THEN 0 ELSE left
         IN  [k \in 1..Len(procs) |->
                IF k - 1 = current
                THEN [procs[k] EXCEPT !.burst_left = clamped]
                ELSE IF k - 1 < plen /\ procs[k].burst_left > 0
                     THEN [procs[k] EXCEPT !.wait = AddInt(@, used)]
                     ELSE procs[k]]

\* run_proc without the amount <= 0 guard.
RunProc_NoAmountGuard(procs, plen, current, amount) ==
    IF procs = NULL \/ plen <= 0 \/ current < 0 \/ current >= plen
    THEN procs
    ELSE LET remaining == procs[current + 1].burst_left IN
         IF remaining <= 0
         THEN procs
         ELSE LET used == IF amount > remaining THEN remaining ELSE amount
                  left == remaining - used
                  clamped == IF left < 0 THEN 0 ELSE left
              IN  [k \in 1..Len(procs) |->
                     IF k - 1 = current
                     THEN [procs[k] EXCEPT !.burst_left = clamped]
                     ELSE IF k - 1 < plen /\ procs[k].burst_left > 0
                          THEN [procs[k] EXCEPT !.wait = AddInt(@, used)]
                          ELSE procs[k]]

\* void run_proc(struct pcb* procs, int plen, int current, int amount):
\* the table after the call.
RunProc(procs, plen, current, amount) ==
    IF procs = NULL \/ plen <= 0 \/ current < 0 \/ current >= plen \/ amount <= 0
    THEN procs
    ELSE LET remaining == procs[current + 1].burst_left IN
         IF remaining <= 0
         THEN procs
         ELSE LET used == IF amount > remaining THEN remaining ELSE amount
                  left == remaining - used
                  clamped == IF left < 0 THEN 0 ELSE left
              IN  [k \in 1..Len(procs) |->
                     IF k - 1 = current
                     THEN [procs[k] EXCEPT !.burst_left = clamped]
                     ELSE IF k - 1 < plen /\ procs[k].burst_left > 0
                          THEN [procs[k] EXCEPT !.wait = AddInt(@, used)]
                          ELSE procs[k]]

\* The any_remaining loop started at index 1 instead of 0.
AnyRemaining_SkipFirst(procs, plen) ==
    \E k \in 1..(plen - 1) : procs[k + 1].burst_left > 0

\* The "any_remaining" loop of rr_next.
AnyRemaining(procs, plen) ==
    \E k \in 0..(plen - 1) : procs[k + 1].burst_left > 0

\* The pick-the-first loop returning its first index without looking at
\* burst_left.
FirstRunnableFrom_NoCheck(j, procs, plen) ==
    IF j >= plen THEN -1 ELSE j

\* for (j = from; j < plen; j++) if (procs[j].burst_left > 0) return j;
\* return -1;
RECURSIVE FirstRunnableFrom(_, _, _)
FirstRunnableFrom(j, procs, plen) ==
    IF j >= plen THEN -1
    ELSE IF procs[j + 1].burst_left > 0 THEN j
    ELSE FirstRunnableFrom(j + 1, procs, plen)

\* The while (i != current) scan of rr_next: the index it returns, or -1
\* when the loop ends because i came back to current.
RECURSIVE ScanAfter(_, _, _, _)
ScanAfter(i, current, procs, plen) ==
    IF i = current THEN -1
    ELSE IF procs[i + 1].burst_left > 0 THEN i
    ELSE ScanAfter((i + 1) % plen, current, procs, plen)

\* rr_next without the "stay on current" rule: -1 when no other process is
\* runnable.
RrNext_NoStay(current, procs, plen) ==
    IF procs = NULL \/ plen <= 0 THEN -1
    ELSE IF ~AnyRemaining(procs, plen) THEN -1
    ELSE IF current < 0 \/ current >= plen
         THEN FirstRunnableFrom(0, procs, plen)
    ELSE ScanAfter((current + 1) % plen, current, procs, plen)

\* rr_next scanning backwards from current - 1.
RECURSIVE ScanBefore(_, _, _, _)
ScanBefore(i, current, procs, plen) ==
    IF i = current THEN -1
    ELSE IF procs[i + 1].burst_left > 0 THEN i
    ELSE ScanBefore((i + plen - 1) % plen, current, procs, plen)

RrNext_Backward(current, procs, plen) ==
    IF procs = NULL \/ plen <= 0 THEN -1
    ELSE IF ~AnyRemaining(procs, plen) THEN -1
    ELSE IF current < 0 \/ current >= plen
         THEN FirstRunnableFrom(0, procs, plen)
    ELSE LET found == ScanBefore((current + plen - 1) % plen, current,
                                 procs, plen) IN
         IF found # -1 THEN found
         ELSE IF procs[current + 1].burst_left > 0 THEN current
         ELSE FirstRunnableFrom(0, procs, plen)

\* rr_next returning the next index without looking at its burst_left.
RrNext_NoCheck(current, procs, plen) ==
    IF procs = NULL \/ plen <= 0 THEN -1
    ELSE IF ~AnyRemaining(procs, plen) THEN -1
    ELSE IF current < 0 \/ current >= plen
         THEN FirstRunnableFrom(0, procs, plen)
    ELSE (current + 1) % plen

\* rr_next always restarting from index 0.
RrNext_FromZero(current, procs, plen) ==
    IF procs = NULL \/ plen <= 0 THEN -1
    ELSE FirstRunnableFrom(0, procs, plen)

\* rr_next with the scan started one index too far, at current + 2.
RrNext_SkipOne(current, procs, plen) ==
    IF procs = NULL \/ plen <= 0 THEN -1
    ELSE IF ~AnyRemaining(procs, plen) THEN -1
    ELSE IF current < 0 \/ current >= plen
         THEN FirstRunnableFrom(0, procs, plen)
    ELSE LET found == ScanAfter((current + 2) % plen, current, procs, plen) IN
         IF found # -1 THEN found
         ELSE IF procs[current + 1].burst_left > 0 THEN current
         ELSE FirstRunnableFrom(0, procs, plen)

\* int rr_next(int current, struct pcb* procs, int plen)
RrNext(current, procs, plen) ==
    IF procs = NULL \/ plen <= 0 THEN -1
    ELSE IF ~AnyRemaining(procs, plen) THEN -1
    ELSE IF current < 0 \/ current >= plen
         THEN FirstRunnableFrom(0, procs, plen)
    ELSE LET found == ScanAfter((current + 1) % plen, current, procs, plen) IN
         IF found # -1 THEN found
         ELSE IF procs[current + 1].burst_left > 0 THEN current
         ELSE FirstRunnableFrom(0, procs, plen)

\* int fcfs_run(struct pcb* procs, int plen) as one call: the table it
\* leaves and the time it returns.
RECURSIVE FcfsLoop(_, _, _, _)
FcfsLoop(procs, plen, i, time) ==
    IF i >= plen THEN [procs |-> procs, time |-> time]
    ELSE IF procs[i + 1].burst_left <= 0
         THEN FcfsLoop(procs, plen, i + 1, time)
    ELSE LET amount == procs[i + 1].burst_left IN
         FcfsLoop(RunProc(procs, plen, i, amount), plen, i + 1,
                  AddInt(time, amount))

FcfsRun(procs, plen) ==
    IF procs = NULL \/ plen <= 0
    THEN [procs |-> procs, time |-> 0]
    ELSE FcfsLoop(procs, plen, 0, 0)

(***************************************************************************)
(* The command-line front end, src/parta_main.c.  An argument is the       *)
(* sequence of its characters; argv[0], the program name, is argv[1] here. *)
(***************************************************************************)
\* The vertical tab, character 11, for which TLA+ has no escape: the
\* character itself stands between the quotes.
VerticalTab == ""

TokProgram == <<"p">>
TokFcfs == <<"f", "c", "f", "s">>
TokRr == <<"r", "r">>

\* The arguments tried after the program name: the two algorithm names, an
\* unknown name, and decimal, negative, multi-digit, part-numeric and
\* signed texts led by white space.
ArgTokens ==
    { TokFcfs, TokRr, <<"s", "j", "f">>, <<"2">>, <<"-", "1">>,
      <<"3", "x">>, <<"1", "0">>, <<" ", VerticalTab, "+", "4">> }

ArgvSeqs ==
    { <<TokProgram>> \o a : a \in UNION { [1..n -> ArgTokens] : n \in 0..MaxArgs } }

DigitValue ==
    [c \in {"0", "1", "2", "3", "4", "5", "6", "7", "8", "9"} |->
        CASE c = "0" -> 0 [] c = "1" -> 1 [] c = "2" -> 2 [] c = "3" -> 3
          [] c = "4" -> 4 [] c = "5" -> 5 [] c = "6" -> 6 [] c = "7" -> 7
          [] c = "8" -> 8 [] c = "9" -> 9]

\* The six characters isspace accepts.
WhiteSpace == {" ", "\t", "\n", VerticalTab, "\f", "\r"}

\* A long magnitude as four 16-bit limbs, least significant first, so that
\* no intermediate value leaves the 32-bit range.
LimbBase == 65536
ZeroLimbs == <<0, 0, 0, 0>>

\* limbs * 10 + digit modulo 2^64, and whether a carry left the top limb.
MulAdd(limbs, digit) ==
    LET v1 == limbs[1] * 10 + digit
        v2 == limbs[2] * 10 + (v1 \div LimbBase)
        v3 == limbs[3] * 10 + (v2 \div LimbBase)
        v4 == limbs[4] * 10 + (v3 \div LimbBase)
    IN  [limbs |-> <<v1 % LimbBase, v2 % LimbBase, v3 % LimbBase,
                     v4 % LimbBase>>,
         carry |-> v4 \div LimbBase # 0]

\* The digits loop of strtol: stops at the first character that is no digit;
\* acc is the magnitude read so far and whether it left 64 bits, after which
\* the digits are still consumed.
RECURSIVE AtoiDigits(_, _)
AtoiDigits(text, acc) ==
    IF text = <<>> \/ text[1] \notin DOMAIN DigitValue
    THEN acc
    ELSE IF acc.over
         THEN AtoiDigits(Tail(text), acc)
    ELSE LET m == MulAdd(acc.limbs, DigitValue[text[1]]) IN
         AtoiDigits(Tail(text), [limbs |-> m.limbs, over |-> m.carry])

\* The leading white space atoi skips.
RECURSIVE SkipSpace(_)
SkipSpace(text) ==
    IF text # <<>> /\ text[1] \in WhiteSpace
    THEN SkipSpace(Tail(text))
    ELSE text

\* The int whose two's complement representation is hi * 2^16 + lo.
ToInt(lo, hi) ==
    IF hi >= LimbBase \div 2
    THEN (hi - LimbBase) * LimbBase + lo
    ELSE hi * LimbBase + lo

\* atoi(text) = (int) strtol(text, NULL, 10): leading white space, an
\* optional sign, then the leading digits; 0 when there are none.  A value
\* outside long is clamped by strtol to LONG_MAX or LONG_MIN, and the
\* conversion to int keeps the low 32 bits, so a value outside int wraps
\* (the C standard leaves that case undefined; this is what the C library of
\* the build does).
Atoi(text) ==
    LET t == SkipSpace(text)
        neg == t # <<>> /\ t[1] = "-"
        signed == t # <<>> /\ t[1] \in {"-", "+"}
        m == AtoiDigits(IF signed THEN Tail(t) ELSE t,
                        [limbs |-> ZeroLimbs, over |-> FALSE])
        lo == m.limbs[1]
        hi == m.limbs[2]
        clamped == m.over \/ m.limbs[4] >= LimbBase \div 2
    IN  IF ~neg
        THEN (IF clamped THEN -1 ELSE ToInt(lo, hi))
        ELSE IF clamped THEN 0
        ELSE IF lo = 0 THEN ToInt(0, (LimbBase - hi) % LimbBase)
        ELSE ToInt(LimbBase - lo, LimbBase - 1 - hi)

\* main with the rr branch asking for argc < 3 only.
MainDispatch_RrNeedsThree(argv) ==
    IF Len(argv) < 3 THEN "error"
    ELSE IF argv[2] = TokFcfs THEN "fcfs"
    ELSE IF argv[2] = TokRr THEN "rr"
    ELSE "error"

\* The branch main takes on its arguments: the argc checks and the strcmp
\* of argv[1] with "fcfs" and "rr".
MainDispatch(argv) ==
    IF Len(argv) < 3 THEN "error"
    ELSE IF argv[2] = TokFcfs
         THEN (IF Len(argv) < 3 THEN "error" ELSE "fcfs")
    ELSE IF argv[2] = TokRr
         THEN (IF Len(argv) < 4 THEN "error" ELSE "rr")
    ELSE "error"

\* bursts[i] = atoi(argv[first + i]) for i in 0..plen-1.
ParseBursts(argv, first, plen) ==
    [k \in 1..plen |-> Atoi(argv[first + k])]

\* The lines main prints.
ErrorLine == <<"stdout", "ERROR: Missing arguments">>
MemFailedLine == <<"stderr", "ERROR: Memory allocation failed">>
InitFailedLine == <<"stderr", "ERROR: Failed to initialize processes">>
AcceptedLines(bursts) ==
    [k \in 1..Len(bursts) |-> <<"stdout", "Accepted", k - 1, bursts[k]>>]

(***************************************************************************)
(* The average wait: sum_wait and avg_wait are doubles, and "%.2f" prints  *)
(* the double.  Their values go beyond the range of int, so a magnitude is *)
(* a sequence of 15-bit limbs, least significant first and without leading *)
(* zero limbs (zero is the empty sequence).                                *)
(***************************************************************************)
RadixBits == 15
Radix == 32768

\* The bits of the significand of a double.
DoubleBits == 53

\* F applied to the value of v, which is computed once whatever the number
\* of uses F makes of it: a C local variable.
With(v, F(_)) == CHOOSE r \in { F(c) : c \in {v} } : TRUE

\* x without its leading zero limbs.
RECURSIVE BigNorm(_)
BigNorm(x) ==
    With(x, LAMBDA y :
        IF y = <<>> THEN <<>>
        ELSE IF y[Len(y)] # 0 THEN y
        ELSE BigNorm(SubSeq(y, 1, Len(y) - 1)))

\* The magnitude n, for 0 <= n <= MaxInt.
RECURSIVE BigOfInt(_)
BigOfInt(n) ==
    IF n = 0 THEN <<>> ELSE <<n % Radix>> \o BigOfInt(n \div Radix)

LimbOf(x, k) == IF k <= Len(x) THEN x[k] ELSE 0

\* x + y.
RECURSIVE BigAddFrom(_, _, _, _)
BigAddFrom(x, y, k, carry) ==
    IF k > Len(x) /\ k > Len(y)
    THEN (IF carry = 0 THEN <<>> ELSE <<carry>>)
    ELSE With(LimbOf(x, k) + LimbOf(y, k) + carry, LAMBDA t :
            <<t % Radix>> \o BigAddFrom(x, y, k + 1, t \div Radix))
BigAdd(x, y) ==
    With(x, LAMBDA a : With(y, LAMBDA b : BigAddFrom(a, b, 1, 0)))

\* x - y, for x >= y.
RECURSIVE BigSubFrom(_, _, _, _)
BigSubFrom(x, y, k, borrow) ==
    IF k > Len(x) THEN <<>>
    ELSE With(x[k] - LimbOf(y, k) - borrow, LAMBDA t :
            IF t < 0
            THEN <<t + Radix>> \o BigSubFrom(x, y, k + 1, 1)
            ELSE <<t>> \o BigSubFrom(x, y, k + 1, 0))
BigSub(x, y) ==
    With(x, LAMBDA a : With(y, LAMBDA b : BigNorm(BigSubFrom(a, b, 1, 0))))

\* -1, 0 or 1 as x < y, x = y or x > y, from the most significant limb.
RECURSIVE BigCmpFrom(_, _, _)
BigCmpFrom(x, y, k) ==
    IF k = 0 THEN 0
    ELSE IF x[k] > y[k] THEN 1
    ELSE IF x[k] < y[k] THEN -1
    ELSE BigCmpFrom(x, y, k - 1)
BigCmp(x, y) ==
    With(x, LAMBDA a : With(y, LAMBDA b :
        IF Len(a) > Len(b) THEN 1
        ELSE IF Len(a) < Len(b) THEN -1
        ELSE BigCmpFrom(a, b, Len(a))))

\* x * c, for 0 < c < Radix.
RECURSIVE BigMulFrom(_, _, _, _)
BigMulFrom(x, c, k, carry) ==
    IF k > Len(x)
    THEN (IF carry = 0 THEN <<>> ELSE <<carry>>)
    ELSE With((x[k] * c) + carry, LAMBDA t :
            <<t % Radix>> \o BigMulFrom(x, c, k + 1, t \div Radix))
BigMulSmall(x, c) ==
    With(x, LAMBDA a : With(c, LAMBDA f : BigMulFrom(a, f, 1, 0)))

\* x * 2^n.
BigShl(x, n) ==
    With(x, LAMBDA a : With(n, LAMBDA m :
        IF a = <<>> THEN <<>>
        ELSE [k \in 1..(m \div RadixBits) |-> 0]
                \o BigMulSmall(a, 2 ^ (m % RadixBits))))

\* x \div 2^n.
BigShr(x, n) ==
    With(n, LAMBDA m :
    With(SubSeq(x, (m \div RadixBits) + 1, Len(x)), LAMBDA y :
    With(2 ^ (m % RadixBits), LAMBDA low :
        BigNorm([k \in 1..Len(y) |->
                    (y[k] \div low)
                        + (LimbOf(y, k + 1) % low) * (Radix \div low)]))))

\* x % 2^n.
BigLow(x, n) ==
    With(x, LAMBDA a : With(n, LAMBDA m :
        BigNorm([k \in 1..((m \div RadixBits) + 1) |->
                    IF k <= m \div RadixBits THEN LimbOf(a, k)
                    ELSE LimbOf(a, k) % (2 ^ (m % RadixBits))])))

\* The number of bits of n >= 0, and of a magnitude.
RECURSIVE IntBitLen(_)
IntBitLen(n) ==
    With(n, LAMBDA m : IF m = 0 THEN 0 ELSE 1 + IntBitLen(m \div 2))
BigBitLen(x) ==
    With(x, LAMBDA a :
        IF a = <<>> THEN 0
        ELSE (RadixBits * (Len(a) - 1)) + IntBitLen(a[Len(a)]))

\* Long division of (carried * Radix + limb) by d, one bit at a time so that
\* nothing leaves the range of int: 0 <= carried < d <= MaxInt.
RECURSIVE DivBits(_, _, _, _, _)
DivBits(carried, limb, d, bit, quot) ==
    With(carried, LAMBDA c :
        IF bit < 0 THEN [quot |-> quot, rem |-> c]
        ELSE IF c >= d - c - ((limb \div (2 ^ bit)) % 2)
        THEN DivBits(c - (d - c - ((limb \div (2 ^ bit)) % 2)), limb, d,
                     bit - 1, (2 * quot) + 1)
        ELSE DivBits((2 * c) + ((limb \div (2 ^ bit)) % 2), limb, d,
                     bit - 1, 2 * quot))

\* (carried * Radix + limb) \div d and its remainder: at once when the
\* dividend stays within int, bit by bit otherwise.
DivLimb(carried, limb, d) ==
    IF d <= 2 * Radix
    THEN With((carried * Radix) + limb, LAMBDA t :
            [quot |-> t \div d, rem |-> t % d])
    ELSE DivBits(carried, limb, d, RadixBits - 1, 0)

\* x \div d and x % d, for 0 < d <= MaxInt, from the most significant limb.
RECURSIVE BigDivFrom(_, _, _)
BigDivFrom(x, d, k) ==
    IF k > Len(x) THEN [quot |-> <<>>, rem |-> 0]
    ELSE With(BigDivFrom(x, d, k + 1), LAMBDA high :
         With(DivLimb(high.rem, x[k], d), LAMBDA step :
            [quot |-> <<step.quot>> \o high.quot, rem |-> step.rem]))
BigDivInt(x, d) ==
    With(x, LAMBDA a : With(d, LAMBDA by :
    With(BigDivFrom(a, by, 1), LAMBDA r :
        [quot |-> BigNorm(r.quot), rem |-> r.rem])))

\* x / 2^n rounded to the nearest integer, a tie to the even one; sticky
\* tells that the exact value lies above x.  For n >= 1.
RoundEven(x, n, sticky) ==
    With(x, LAMBDA a : With(n, LAMBDA m :
    With(BigShr(a, m), LAMBDA q :
    With(BigCmp(BigLow(a, m), BigShl(<<1>>, m - 1)), LAMBDA c :
        IF c > 0 \/ (c = 0 /\ (sticky \/ (LimbOf(q, 1) % 2) = 1))
        THEN BigAdd(q, <<1>>)
        ELSE q))))

\* The magnitude of an int.
IntMagnitude(n) ==
    With(n, LAMBDA m :
        IF m >= 0 THEN BigOfInt(m)
        ELSE BigAdd(BigOfInt(0 - (m + 1)), <<1>>))

\* The exact sum of a signed magnitude and an int.
SignedAdd(sum, n, m) ==
    IF sum.neg = (n < 0)
    THEN [neg |-> sum.neg, mag |-> BigAdd(sum.mag, m)]
    ELSE IF BigCmp(sum.mag, m) >= 0
    THEN [neg |-> sum.neg, mag |-> BigSub(sum.mag, m)]
    ELSE [neg |-> n < 0, mag |-> BigSub(m, sum.mag)]

\* sum + n in double, for an integer-valued double sum (sign and magnitude)
\* and an int n: the exact sum, rounded to 53 significant bits when it has
\* more.
DoubleAddInt(sum, n) ==
    With(sum, LAMBDA s : With(n, LAMBDA w :
    With(IntMagnitude(w), LAMBDA m :
    With(SignedAdd(s, w, m), LAMBDA exact :
    With(BigBitLen(exact.mag) - DoubleBits, LAMBDA extra :
        IF exact.mag = <<>> THEN [neg |-> FALSE, mag |-> <<>>]
        ELSE IF extra <= 0 THEN exact
        ELSE [neg |-> exact.neg,
              mag |-> BigShl(RoundEven(exact.mag, extra, FALSE), extra)])))))

\* sum_wait after the loop over procs[0..plen-1].
RECURSIVE SumWait(_, _)
SumWait(procs, n) ==
    IF n = 0 THEN [neg |-> FALSE, mag |-> <<>>]
    ELSE DoubleAddInt(SumWait(procs, n - 1), procs[n].wait)

\* sum_wait / (double)plen, for sum_wait # 0 and plen >= 1: the double
\* nearest to the quotient, as sig * 2^(-scale) with sig of 53 bits (or
\* 2^53).
DoubleDiv(sum, plen) ==
    With(sum, LAMBDA s :
    With(DoubleBits + 3 + IntBitLen(plen) - BigBitLen(s.mag), LAMBDA shift :
    With(BigDivInt(BigShl(s.mag, shift), plen), LAMBDA d :
    With(BigBitLen(d.quot) - DoubleBits, LAMBDA extra :
        [neg |-> s.neg,
         sig |-> RoundEven(d.quot, extra, d.rem # 0),
         scale |-> shift - extra]))))

\* The value of the double in hundredths, rounded as printf rounds: to the
\* nearest, a tie to the even one.
Hundredths(avg) ==
    With(avg, LAMBDA a :
    With(BigMulSmall(a.sig, 100), LAMBDA n :
        IF a.scale <= 0 THEN BigShl(n, 0 - a.scale)
        ELSE RoundEven(n, a.scale, FALSE)))

DigitChar == <<"0", "1", "2", "3", "4", "5", "6", "7", "8", "9">>

\* The decimal digits of a magnitude, "0" for zero.
RECURSIVE DecimalDigits(_)
DecimalDigits(x) ==
    With(BigDivInt(x, 10), LAMBDA d :
        IF d.quot = <<>> THEN <<DigitChar[d.rem + 1]>>
        ELSE Append(DecimalDigits(d.quot), DigitChar[d.rem + 1]))

\* What "%.2f" prints for sum_wait / plen, character by character.
AverageText(procs, plen) ==
    With(SumWait(procs, plen), LAMBDA sum :
        IF sum.mag = <<>> THEN <<"0", ".", "0", "0">>
        ELSE With(BigDivInt(Hundredths(DoubleDiv(sum, plen)), 100), LAMBDA h :
                (IF sum.neg THEN <<"-">> ELSE <<>>)
                    \o DecimalDigits(h.quot)
                    \o <<".", DigitChar[(h.rem \div 10) + 1],
                         DigitChar[(h.rem % 10) + 1]>>))

(***************************************************************************)
(* State.                                                                  *)
(***************************************************************************)
VARIABLES
    bursts,     \* the burst array handed to init_procs
    procs,      \* the PCB table (NULL when construction failed)
    pc,         \* "ready", "fcfs", "rr", "done" (a driver returned),
                \* "called" (a direct run_proc / rr_next call returned),
                \* "main" (main entered), "exited" (main returned)
    op,         \* the function called: "none", "fcfs_run", "rr_run",
                \* "run_proc", "rr_next"
    plen,       \* the plen argument of the call
    quantum,    \* rr_run's quantum argument
    i,          \* fcfs_run's loop index
    current,    \* rr_run's current; the current argument of a direct call
    amount,     \* the amount of the last run_proc call
    time,       \* the driver's elapsed time
    ret,        \* the value returned by fcfs_run or rr_run
    prev,       \* the current argument of the last rr_next call
    sel,        \* the value the last rr_next call returned
    trace,      \* the slices the driver has run: <<index, amount>> each
    argv,       \* main's arguments, program name first (<<>>: the library
                \* is called directly)
    exit,       \* main's exit status (-1 until it returns)
    out,        \* the lines main has printed
    mallocs     \* the outcome of each malloc call so far, in order (TRUE:
                \* a block was returned)

vars == <<bursts, procs, pc, op, plen, quantum, i, current, amount, time,
          ret, prev, sel, trace, argv, exit, out, mallocs>>

\* The plen arguments a caller may pass with the table it holds: its length,
\* or an invalid length; any length with an absent table.
PlenValues(p) ==
    {-1, 0} \cup (IF p = NULL THEN 1..MaxProcs ELSE {Len(p)})

\* Either init_procs was called for direct calls of the library, its malloc
\* succeeding or not, or the program was started with a command line and
\* nothing is constructed yet.
Init ==
    /\ \/ /\ bursts \in BurstSeqs
          /\ \E allocated \in BOOLEAN :
                /\ procs = InitProcs(bursts, Len(bursts), allocated)
                /\ mallocs = IF Len(bursts) <= 0 THEN <<>> ELSE <<allocated>>
          /\ pc = "ready"
          /\ argv = <<>>
       \/ /\ bursts = <<>>
          /\ procs = NULL
          /\ mallocs = <<>>
          /\ pc = "main"
          /\ argv \in ArgvSeqs
    /\ exit = -1
    /\ out = <<>>
    /\ op = "none"
    /\ plen = 0
    /\ quantum = 0
    /\ i = 0
    /\ current = -1
    /\ amount = 0
    /\ time = 0
    /\ ret = 0
    /\ prev = -1
    /\ sel = -1
    /\ trace = <<>>

(***************************************************************************)
(* fcfs_run                                                                *)
(***************************************************************************)
\* Entry of fcfs_run: the guard, then time = 0 and i = 0.
FcfsCall ==
    /\ pc = "ready"
    /\ \E n \in PlenValues(procs) :
        /\ plen' = n
        /\ IF procs = NULL \/ n <= 0
           THEN pc' = "done"
           ELSE pc' = "fcfs"
    /\ op' = "fcfs_run"
    /\ i' = 0
    /\ time' = 0
    /\ ret' = 0
    /\ UNCHANGED <<bursts, procs, quantum, current, amount, prev, sel, trace,
                   argv, exit, out, mallocs>>

\* The for loop of fcfs_run walking the table from its last index down.
FcfsIter_FromLast ==
    /\ pc = "fcfs"
    /\ i < plen
    /\ LET j == plen - 1 - i IN
       IF procs[j + 1].burst_left <= 0
       THEN UNCHANGED <<procs, amount, time, trace>>
       ELSE LET a == procs[j + 1].burst_left IN
            /\ procs' = RunProc(procs, plen, j, a)
            /\ amount' = a
            /\ time' = AddInt(time, a)
            /\ trace' = Append(trace, <<j, a>>)
    /\ i' = i + 1
    /\ UNCHANGED <<bursts, pc, op, plen, quantum, current, ret, prev, sel,
                   argv, exit, out, mallocs>>

\* One iteration of the for loop of fcfs_run.
FcfsIter ==
    /\ pc = "fcfs"
    /\ i < plen
    /\ IF procs[i + 1].burst_left <= 0
       THEN UNCHANGED <<procs, amount, time, trace>>
       ELSE LET a == procs[i + 1].burst_left IN
            /\ procs' = RunProc(procs, plen, i, a)
            /\ amount' = a
            /\ time' = AddInt(time, a)
            /\ trace' = Append(trace, <<i, a>>)
    /\ i' = i + 1
    /\ UNCHANGED <<bursts, pc, op, plen, quantum, current, ret, prev, sel,
                   argv, exit, out, mallocs>>

\* The loop of fcfs_run ends: return time.
FcfsReturn ==
    /\ pc = "fcfs"
    /\ i >= plen
    /\ pc' = "done"
    /\ ret' = time
    /\ UNCHANGED <<bursts, procs, op, plen, quantum, i, current, amount,
                   time, prev, sel, trace,
                   argv, exit, out, mallocs>>

(***************************************************************************)
(* rr_run                                                                  *)
(***************************************************************************)
\* Entry of rr_run: the guard, then time = 0 and current = -1.
RrCall ==
    /\ pc = "ready"
    /\ \E n \in PlenValues(procs), q \in QuantumValues :
        /\ plen' = n
        /\ quantum' = q
        /\ IF procs = NULL \/ n <= 0 \/ q <= 0
           THEN pc' = "done"
           ELSE pc' = "rr"
    /\ op' = "rr_run"
    /\ current' = -1
    /\ time' = 0
    /\ ret' = 0
    /\ UNCHANGED <<bursts, procs, i, amount, prev, sel, trace,
                   argv, exit, out, mallocs>>

\* One iteration of the while (1) loop of rr_run: rr_next, then either the
\* break (return time), the defensive continue, or one run_proc slice.
RrIter ==
    /\ pc = "rr"
    /\ LET next == RrNext(current, procs, plen) IN
        /\ prev' = current
        /\ sel' = next
        /\ current' = next
        /\ IF next = -1
           THEN /\ pc' = "done"
                /\ ret' = time
                /\ UNCHANGED <<procs, amount, time, trace>>
           ELSE LET remaining == procs[next + 1].burst_left IN
                IF remaining <= 0
                THEN UNCHANGED <<procs, pc, amount, time, ret, trace>>
                ELSE LET a == IF remaining < quantum THEN remaining
                                                     ELSE quantum IN
                     /\ procs' = RunProc(procs, plen, next, a)
                     /\ amount' = a
                     /\ time' = AddInt(time, a)
                     /\ trace' = Append(trace, <<next, a>>)
                     /\ UNCHANGED <<pc, ret>>
    /\ UNCHANGED <<bursts, op, plen, quantum, i,
                   argv, exit, out, mallocs>>

(***************************************************************************)
(* Direct calls of the executor and of the selector on a constructed table. *)
(***************************************************************************)
RunProcCall ==
    /\ pc = "ready"
    /\ \E n \in PlenValues(procs), c \in IndexValues, a \in AmountValues :
        /\ plen' = n
        /\ current' = c
        /\ amount' = a
        /\ procs' = RunProc(procs, n, c, a)
    /\ pc' = "called"
    /\ op' = "run_proc"
    /\ UNCHANGED <<bursts, quantum, i, time, ret, prev, sel, trace,
                   argv, exit, out, mallocs>>

RrNextCall ==
    /\ pc = "ready"
    /\ \E n \in PlenValues(procs), c \in IndexValues :
        /\ plen' = n
        /\ prev' = c
        /\ sel' = RrNext(c, procs, n)
    /\ pc' = "called"
    /\ op' = "rr_next"
    /\ UNCHANGED <<bursts, procs, quantum, i, current, amount, time, ret,
                   trace,
                   argv, exit, out, mallocs>>

(***************************************************************************)
(* main                                                                    *)
(***************************************************************************)
\* Too few arguments or an unknown algorithm: the message and status 1.
MainError ==
    /\ pc = "main"
    /\ MainDispatch(argv) = "error"
    /\ out' = <<ErrorLine>>
    /\ exit' = 1
    /\ pc' = "exited"
    /\ UNCHANGED <<bursts, procs, op, plen, quantum, i, current, amount,
                   time, ret, prev, sel, trace, argv, mallocs>>

\* The fcfs branch up to the entry of fcfs_run: the burst array is
\* allocated and parsed, the banner and the accepted processes printed, the
\* table constructed.  Either allocation can fail, which ends the program
\* with status 1.
MainFcfs ==
    /\ pc = "main"
    /\ MainDispatch(argv) = "fcfs"
    /\ \E gotBursts \in BOOLEAN, gotProcs \in BOOLEAN :
       LET n == Len(argv) - 2
           b == ParseBursts(argv, 2, n)
           p == InitProcs(b, n, gotProcs)
       IN  IF ~gotBursts
           THEN /\ mallocs' = <<FALSE>>
                /\ out' = <<MemFailedLine>>
                /\ exit' = 1
                /\ pc' = "exited"
                /\ UNCHANGED <<bursts, procs, op, plen, i, time, ret>>
           ELSE /\ mallocs' = IF n <= 0 THEN <<TRUE>> ELSE <<TRUE, gotProcs>>
                /\ bursts' = b
                /\ procs' = p
                /\ IF p = NULL
                   THEN /\ out' = <<<<"stdout", "Using FCFS">>>>
                                     \o AcceptedLines(b) \o <<InitFailedLine>>
                        /\ exit' = 1
                        /\ pc' = "exited"
                        /\ UNCHANGED <<op, plen, i, time, ret>>
                   ELSE /\ out' = <<<<"stdout", "Using FCFS">>>>
                                     \o AcceptedLines(b)
                        /\ op' = "fcfs_run"
                        /\ plen' = n
                        /\ i' = 0
                        /\ time' = 0
                        /\ ret' = 0
                        /\ pc' = IF n <= 0 THEN "done" ELSE "fcfs"
                        /\ UNCHANGED exit
    /\ UNCHANGED <<quantum, current, amount, prev, sel, trace, argv>>

\* The rr branch up to the entry of rr_run, with the same two allocations.
MainRr ==
    /\ pc = "main"
    /\ MainDispatch(argv) = "rr"
    /\ \E gotBursts \in BOOLEAN, gotProcs \in BOOLEAN :
       LET q == Atoi(argv[3])
           n == Len(argv) - 3
           b == ParseBursts(argv, 3, n)
           p == InitProcs(b, n, gotProcs)
       IN  IF ~gotBursts
           THEN /\ mallocs' = <<FALSE>>
                /\ out' = <<MemFailedLine>>
                /\ exit' = 1
                /\ pc' = "exited"
                /\ UNCHANGED <<bursts, procs, op, plen, quantum, current,
                               time, ret>>
           ELSE /\ mallocs' = IF n <= 0 THEN <<TRUE>> ELSE <<TRUE, gotProcs>>
                /\ bursts' = b
                /\ procs' = p
                /\ IF p = NULL
                   THEN /\ out' = <<<<"stdout", "Using RR", q>>>>
                                     \o AcceptedLines(b) \o <<InitFailedLine>>
                        /\ exit' = 1
                        /\ pc' = "exited"
                        /\ UNCHANGED <<op, plen, quantum, current, time, ret>>
                   ELSE /\ out' = <<<<"stdout", "Using RR", q>>>>
                                     \o AcceptedLines(b)
                        /\ op' = "rr_run"
                        /\ plen' = n
                        /\ quantum' = q
                        /\ current' = -1
                        /\ time' = 0
                        /\ ret' = 0
                        /\ pc' = IF n <= 0 \/ q <= 0 THEN "done" ELSE "rr"
                        /\ UNCHANGED exit
    /\ UNCHANGED <<i, amount, prev, sel, trace, argv>>

\* The driver returned to main: the average wait is printed, status 0.
MainFinish ==
    /\ pc = "done"
    /\ argv # <<>>
    /\ out' = Append(out, <<"stdout", "Average wait time",
                            AverageText(procs, plen)>>)
    /\ exit' = 0
    /\ pc' = "exited"
    /\ UNCHANGED <<bursts, procs, op, plen, quantum, i, current, amount,
                   time, ret, prev, sel, trace, argv, mallocs>>

Next ==
    \/ FcfsCall
    \/ FcfsIter
    \/ FcfsReturn
    \/ RrCall
    \/ RrIter
    \/ RunProcCall
    \/ RrNextCall
    \/ MainError
    \/ MainFcfs
    \/ MainRr
    \/ MainFinish

Spec == Init /\ [][Next]_vars

\* The program is single-threaded and keeps executing: a driver that has
\* been entered takes its next step.
Running ==
    FcfsIter \/ FcfsReturn \/ RrIter \/ MainError \/ MainFcfs \/ MainRr
        \/ MainFinish

LiveSpec == Init /\ [][Next]_vars /\ WF_vars(Running)


(***************************************************************************)
(* Vocabulary of the properties.                                           *)
(***************************************************************************)
RECURSIVE SumSeq(_)
SumSeq(s) == IF s = <<>> THEN 0 ELSE Head(s) + SumSeq(Tail(s))

IsPositive(x) == x > 0

\* Sum of the positive values among the first n original bursts.
PositiveBefore(n) == SumSeq(SelectSeq(SubSeq(bursts, 1, n), IsPositive))

MaxOf(s) == IF s = <<>> THEN 0
            ELSE CHOOSE m \in {s[k] : k \in 1..Len(s)} :
                    \A k \in 1..Len(s) : s[k] <= m

\* The table as init_procs built it; its malloc, when it got that far, is
\* the last one made.
Constructed ==
    InitProcs(bursts, Len(bursts),
              mallocs # <<>> /\ mallocs[Len(mallocs)])

\* A driver was called on the constructed, non-empty table with its length.
ValidTable == procs # NULL /\ plen = Len(procs)

FcfsReturned == pc = "done" /\ op = "fcfs_run" /\ ValidTable

RrReturned == pc = "done" /\ op = "rr_run" /\ ValidTable /\ quantum > 0

\* Sum of the burst_left fields of the table.
TotalLeft(p) == SumSeq([k \in 1..Len(p) |-> p[k].burst_left])

(***************************************************************************)
(* C1                                                                      *)
(***************************************************************************)
\* C1 as stated: when fcfs_run returns, and when rr_run called with
\* quantum > 0 returns, every process of the table has burst_left = 0.
C1_AllZeroAtReturn ==
    (FcfsReturned \/ RrReturned) =>
        \A k \in 1..Len(procs) : procs[k].burst_left = 0

\* C1 amended: when fcfs_run returns, and when rr_run called with
\* quantum > 0 returns, every process whose original burst was non-negative
\* has burst_left = 0, and a process whose original burst was negative still
\* has that negative burst_left (so every burst_left is <= 0).
C1_AllFinishedAtReturn ==
    (FcfsReturned \/ RrReturned) =>
        \A k \in 1..Len(procs) :
            procs[k].burst_left = (IF bursts[k] < 0 THEN bursts[k] ELSE 0)

\* A round-robin run of several slices returned on a table that held a
\* negative burst.
C1_Witness ==
    /\ RrReturned
    /\ Len(trace) >= 3
    /\ \E k \in 1..Len(bursts) : bursts[k] < 0

(***************************************************************************)
(* C2                                                                      *)
(***************************************************************************)
\* C2 as stated: the time returned by fcfs_run, and by rr_run with
\* quantum > 0, is the sum of the original burst values.
C2_TimeIsSumOfBursts ==
    (FcfsReturned \/ RrReturned) => ret = SumSeq(bursts)

\* C2 amended: the time returned by fcfs_run, and by rr_run with
\* quantum > 0, is the sum of the original burst values that are positive
\* (the burst time actually consumed).
C2_TimeIsSumOfPositiveBursts ==
    (FcfsReturned \/ RrReturned) => ret = PositiveBefore(Len(bursts))

\* A round-robin run that preempted returned a positive time on a table
\* that held a negative burst.
C2_Witness ==
    /\ RrReturned
    /\ ret > 0
    /\ Len(trace) > Len(bursts)
    /\ \E k \in 1..Len(bursts) : bursts[k] < 0

(***************************************************************************)
(* C3                                                                      *)
(***************************************************************************)
\* C3 as stated: after fcfs_run, the final wait of every process i is the
\* sum of the original bursts of the processes before i whose original
\* burst was positive.
C3_WaitIsSumBefore ==
    FcfsReturned =>
        \A k \in 1..Len(procs) : procs[k].wait = PositiveBefore(k - 1)

\* C3 amended: after fcfs_run, the final wait of every process i whose
\* original burst was positive is the sum of the original bursts of the
\* processes before i whose original burst was positive, and the final wait
\* of a process whose original burst was zero or negative is 0; bursts
\* [5,3,8] give waits 0, 5, 8 and total time 16.
C3_WaitIsSumBeforeIfPositive ==
    FcfsReturned =>
        /\ \A k \in 1..Len(procs) :
              procs[k].wait = (IF bursts[k] > 0 THEN PositiveBefore(k - 1)
                                                ELSE 0)
        /\ bursts = <<5, 3, 8>> =>
              /\ [k \in 1..3 |-> procs[k].wait] = <<0, 5, 8>>
              /\ ret = 16

\* fcfs_run returned on a table with a finished process between two
\* runnable ones: the last one waited for the first only.
C3_Witness ==
    /\ FcfsReturned
    /\ Len(bursts) = 3
    /\ bursts[1] > 0 /\ bursts[2] <= 0 /\ bursts[3] > 0
    /\ procs[2].wait = 0
    /\ procs[3].wait = bursts[1]

(***************************************************************************)
(* C4                                                                      *)
(***************************************************************************)
\* C4: with a quantum q > 0 that is at least the largest burst, rr_run
\* leaves the table (every wait, every burst_left) that fcfs_run leaves
\* when started from the same constructed table, and returns the same time.
C4_LargeQuantumIsFcfs ==
    (RrReturned /\ quantum >= MaxOf(bursts)) =>
        /\ procs = FcfsRun(Constructed, plen).procs
        /\ ret = FcfsRun(Constructed, plen).time

\* rr_run with a quantum covering every burst returned after running
\* three processes, the later ones having waited.
C4_Witness ==
    /\ RrReturned
    /\ quantum >= MaxOf(bursts)
    /\ Len(trace) = 3
    /\ procs[3].wait > procs[2].wait
    /\ procs[2].wait > 0

(***************************************************************************)
(* C5                                                                      *)
(***************************************************************************)
\* C5: a driver that has been entered returns (rr_run for every table and
\* every quantum > 0, fcfs_run after one pass over the indices): every
\* iteration of rr_run that does not exit strictly decreases the total
\* remaining burst, and every iteration of fcfs_run advances its index.
C5_DriversTerminate ==
    /\ (pc \in {"fcfs", "rr"}) ~> (pc = "done")
    /\ [][(pc = "rr" /\ pc' = "rr") => TotalLeft(procs') < TotalLeft(procs)]_vars
    /\ [][(pc = "fcfs" /\ pc' = "fcfs") => (i' = i + 1 /\ i' <= plen)]_vars

\* rr_run returned after more slices than there are processes.
C5_Witness ==
    /\ RrReturned
    /\ Len(trace) > Len(procs)
    /\ Len(procs) >= 2

(***************************************************************************)
(* rr_next: the steps that call it.  The call reads the table of the       *)
(* state the step leaves from (procs), with the arguments prev' and plen'  *)
(* and the result sel'.                                                    *)
(***************************************************************************)
RrNextCalled ==
    \/ pc = "rr" /\ pc' \in {"rr", "done"}
    \/ pc = "ready" /\ op' = "rr_next"

\* The call was made on a table with its length (not absent, plen > 0).
RrNextOnTable == RrNextCalled /\ procs # NULL /\ plen' = Len(procs)

(***************************************************************************)
(* C6                                                                      *)
(***************************************************************************)
\* C6 as stated: on a valid table and for every previous, rr_next returns
\* -1 if and only if every process has burst_left = 0.
C6_NoneIffAllZero ==
    [][RrNextOnTable =>
         (sel' = -1 <=> \A k \in 1..Len(procs) : procs[k].burst_left = 0)]_vars

\* C6 amended: on a valid table and for every previous, rr_next returns -1
\* if and only if every process has burst_left <= 0.
C6_NoneIffAllFinished ==
    [][RrNextOnTable =>
         (sel' = -1 <=> \A k \in 1..Len(procs) : procs[k].burst_left <= 0)]_vars

\* rr_next, called with a valid previous index, returned -1 on a table of
\* several processes none of which is runnable and one of which has a
\* negative burst_left.
C6_Witness ==
    /\ pc = "called" /\ op = "rr_next"
    /\ ValidTable
    /\ Len(procs) >= 2
    /\ prev \in 0..(plen - 1)
    /\ sel = -1
    /\ \E k \in 1..Len(procs) : procs[k].burst_left < 0

(***************************************************************************)
(* C7                                                                      *)
(***************************************************************************)
\* C7: for every table and every previous (-1 and out-of-range values
\* included), an index returned by rr_next is in 0..plen-1 and its process
\* has burst_left > 0.
C7_SelectedIsRunnable ==
    [][(RrNextCalled /\ sel' # -1) =>
         /\ sel' \in 0..(plen' - 1)
         /\ plen' <= Len(procs)
         /\ procs[sel' + 1].burst_left > 0]_vars

\* rr_next, called with an out-of-range previous, returned an index that is
\* not the first of the table.
C7_Witness ==
    /\ pc = "called" /\ op = "rr_next"
    /\ ValidTable
    /\ prev >= plen
    /\ sel > 0
    /\ procs[sel + 1].burst_left > 0
    /\ procs[1].burst_left <= 0

(***************************************************************************)
(* C8                                                                      *)
(***************************************************************************)
\* The first runnable index in the cyclic order p+1, p+2, ..., p+n (mod n);
\* the last of them is p itself.
IsCyclicFirst(r, p, table, n) ==
    \E d \in 1..n :
        /\ r = (p + d) % n
        /\ table[r + 1].burst_left > 0
        /\ \A e \in 1..(d - 1) : table[((p + e) % n) + 1].burst_left <= 0

\* C8: when some process is runnable, rr_next with a valid previous returns
\* the first index with burst_left > 0 in the cyclic order previous+1,
\* previous+2, ... modulo N, and previous itself only when no other process
\* is runnable and previous has burst_left > 0; with previous -1 or out of
\* range it returns the lowest index with burst_left > 0.
C8_RoundRobinOrder ==
    [][(RrNextOnTable /\ \E k \in 1..Len(procs) : procs[k].burst_left > 0) =>
         IF prev' \in 0..(plen' - 1)
         THEN /\ IsCyclicFirst(sel', prev', procs, plen')
              /\ sel' = prev' =>
                    /\ procs[prev' + 1].burst_left > 0
                    /\ \A k \in 1..Len(procs) :
                          k - 1 # prev' => procs[k].burst_left <= 0
         ELSE /\ sel' \in 0..(plen' - 1)
              /\ procs[sel' + 1].burst_left > 0
              /\ \A k \in 1..sel' : procs[k].burst_left <= 0]_vars

\* rr_next wrapped around: called with the last index as previous, it
\* skipped the finished process 0 and returned index 1.
C8_Witness ==
    /\ pc = "called" /\ op = "rr_next"
    /\ ValidTable
    /\ plen = 3
    /\ prev = 2
    /\ sel = 1
    /\ procs[1].burst_left <= 0
    /\ procs[3].burst_left > 0

(***************************************************************************)
(* C9                                                                      *)
(***************************************************************************)
\* C9: invalid calls are no-ops.  run_proc with amount <= 0, with current
\* out of range, with plen <= 0 or with an absent table leaves the table as
\* it was; fcfs_run and rr_run with an absent table or plen <= 0, and
\* rr_run with quantum <= 0, return 0 at once and leave the table as it was.
C9_InvalidCallsAreNoOps ==
    /\ (/\ op = "run_proc"
        /\ \/ procs = NULL
           \/ plen <= 0
           \/ current < 0
           \/ current >= plen
           \/ amount <= 0)
          => procs = Constructed
    /\ (/\ op \in {"fcfs_run", "rr_run"}
        /\ \/ procs = NULL
           \/ plen <= 0
           \/ (op = "rr_run" /\ quantum <= 0))
          => (/\ pc \in {"done", "exited"}
              /\ ret = 0
              /\ procs = Constructed
              /\ trace = <<>>)

\* run_proc returned from a call with amount <= 0 on a runnable process of
\* a table where another process is runnable too.
C9_Witness ==
    /\ pc = "called" /\ op = "run_proc"
    /\ ValidTable
    /\ amount <= 0
    /\ current \in 0..(plen - 1)
    /\ procs[current + 1].burst_left > 0
    /\ \E k \in 1..Len(procs) : k - 1 # current /\ procs[k].burst_left > 0

(***************************************************************************)
(* C10                                                                     *)
(***************************************************************************)
ScenarioB == <<5, 3, 8>>

ScenarioBTrace == << <<0, 4>>, <<1, 3>>, <<2, 4>>, <<0, 1>>, <<2, 4>> >>

\* rr_run was called with quantum 4 on the table constructed for scenario B.
InScenarioB ==
    /\ bursts = ScenarioB /\ procs # NULL
    /\ op = "rr_run" /\ quantum = 4 /\ plen = 3

\* C10: for bursts [5, 3, 8] and quantum 4, rr_run runs P0 for 4, P1 for 3
\* (P1 finishes), P2 for 4, P0 for 1 (P0 finishes), P2 for 4 (P2 finishes),
\* in this order, and returns 16.
C10_ScenarioBTrace ==
    InScenarioB =>
        /\ Len(trace) <= Len(ScenarioBTrace)
        /\ trace = SubSeq(ScenarioBTrace, 1, Len(trace))
        /\ Len(trace) >= 2 => procs[2].burst_left = 0
        /\ Len(trace) >= 4 => procs[1].burst_left = 0
        /\ Len(trace) = 3 => procs[1].burst_left > 0 /\ procs[3].burst_left > 0
        /\ Len(trace) = 4 => procs[3].burst_left > 0
        /\ pc = "done" =>
              /\ trace = ScenarioBTrace
              /\ procs[3].burst_left = 0
              /\ ret = 16

\* rr_run returned in scenario B.
C10_Witness ==
    InScenarioB /\ pc = "done" /\ Len(trace) = 5

(***************************************************************************)
(* C11                                                                     *)
(***************************************************************************)
\* The arguments after the program name.
Args == Tail(argv)

\* The command lines the front end refuses: no algorithm or one that is
\* neither fcfs nor rr, fcfs without a burst, rr without a quantum and a
\* burst.
CliErrorCase ==
    \/ Args = <<>>
    \/ Args[1] \notin {TokFcfs, TokRr}
    \/ Args[1] = TokFcfs /\ Len(Args) < 2
    \/ Args[1] = TokRr /\ Len(Args) < 3

CliOutcome ==
    argv # <<>> =>
        IF CliErrorCase
        THEN /\ pc \in {"main", "exited"}
             /\ op = "none" /\ trace = <<>> /\ procs = NULL
             /\ pc = "exited" => (exit = 1 /\ out = <<ErrorLine>>)
        ELSE /\ pc # "main" =>
                /\ op = (IF Args[1] = TokFcfs THEN "fcfs_run" ELSE "rr_run")
                /\ Len(procs) = Len(Args) - (IF Args[1] = TokFcfs THEN 1 ELSE 2)
                /\ plen = Len(procs)
             /\ pc = "exited" => (exit = 0 /\ ErrorLine \notin {out[k] : k \in 1..Len(out)})

\* C11 as stated: the front end ends with the message ERROR: Missing
\* arguments, exit status 1 and no simulation run when the first argument is
\* neither fcfs nor rr, when fcfs comes without a burst, and when rr comes
\* without a quantum and at least one burst; with fcfs and a burst, or rr, a
\* quantum and a burst, it runs the simulation and exits with status 0.
C11_CliOutcome ==
    /\ []CliOutcome
    /\ (pc = "main") ~> (pc = "exited")

\* The lines printed so far.
OutLines == {out[k] : k \in 1..Len(out)}

\* No simulation was run and no table is held.
NothingRun == op = "none" /\ trace = <<>> /\ procs = NULL

\* The outcome of an accepted command line once main has left its
\* allocations behind: by the outcomes of the two malloc calls, that of the
\* burst array and that of init_procs.
CliAccepted ==
    IF mallocs = <<FALSE>>
    THEN /\ pc = "exited" /\ exit = 1
         /\ out = <<MemFailedLine>>
         /\ NothingRun
    ELSE IF mallocs = <<TRUE, FALSE>>
    THEN /\ pc = "exited" /\ exit = 1
         /\ out[Len(out)] = InitFailedLine
         /\ OutLines \cap {ErrorLine, MemFailedLine} = {}
         /\ \A k \in 1..Len(out) :
                out[k][2] # "Average wait time"
         /\ NothingRun
    ELSE /\ mallocs = <<TRUE, TRUE>>
         /\ op = (IF Args[1] = TokFcfs THEN "fcfs_run" ELSE "rr_run")
         /\ Len(procs) = Len(Args) - (IF Args[1] = TokFcfs THEN 1 ELSE 2)
         /\ plen = Len(procs)
         /\ pc = "exited" =>
               /\ exit = 0
               /\ OutLines \cap {ErrorLine, MemFailedLine, InitFailedLine} = {}
               /\ out[Len(out)][2] = "Average wait time"

CliOutcomeByAllocation ==
    argv # <<>> =>
        IF CliErrorCase
        THEN /\ pc \in {"main", "exited"}
             /\ NothingRun /\ mallocs = <<>>
             /\ pc = "exited" => (exit = 1 /\ out = <<ErrorLine>>)
        ELSE IF pc = "main"
        THEN mallocs = <<>> /\ out = <<>> /\ exit = -1
        ELSE CliAccepted

\* C11: the front end ends with the message ERROR: Missing arguments, exit
\* status 1 and no simulation run when the first argument is neither fcfs
\* nor rr, when fcfs comes without a burst, and when rr comes without a
\* quantum and at least one burst; with fcfs and a burst, or rr, a quantum
\* and a burst, it runs the simulation and exits with status 0 when both of
\* its allocations succeed, and otherwise runs no simulation and exits with
\* status 1 after ERROR: Memory allocation failed (the burst array) or
\* after the banner, the accepted processes and ERROR: Failed to initialize
\* processes (the table).  In every case main returns.
C11_CliOutcomeByAllocation ==
    /\ []CliOutcomeByAllocation
    /\ (pc = "main") ~> (pc = "exited")

\* main returned after "rr <quantum> <burst> ..." with the table's allocation
\* refused.
C11_Witness ==
    /\ pc = "exited"
    /\ Len(argv) >= 4
    /\ argv[2] = TokRr
    /\ mallocs = <<TRUE, FALSE>>
    /\ exit = 1

(***************************************************************************)
(* C12                                                                     *)
(***************************************************************************)
\* The steps in which run_proc acts: a direct call with a table, an index
\* in range, amount > 0 and a runnable process, or a slice run by a driver
\* (the slice recorded in trace').
RunProcActs ==
    \/ /\ pc = "ready" /\ op' = "run_proc"
       /\ procs # NULL /\ plen' = Len(procs)
       /\ current' \in 0..(plen' - 1)
       /\ amount' > 0
       /\ procs[current' + 1].burst_left > 0
    \/ /\ pc \in {"fcfs", "rr"}
       /\ Len(trace') = Len(trace) + 1

\* The index and the amount run_proc was called with in such a step.
RunProcIndex == IF pc = "ready" THEN current' ELSE trace'[Len(trace')][1]
RunProcAmount == IF pc = "ready" THEN amount' ELSE trace'[Len(trace')][2]

Min(a, b) == IF a < b THEN a ELSE b

\* C12: one valid run_proc(table, c, amount) with amount > 0 and
\* burst_left[c] > 0 lowers burst_left[c] by used = min(amount,
\* burst_left[c]), raises by used the wait of every other process with
\* burst_left > 0, and changes nothing else: wait[c], every pid, every
\* other burst_left and the wait of every finished process.
C12_RunProcEffect ==
    [][RunProcActs =>
         LET c == RunProcIndex
             used == Min(RunProcAmount, procs[c + 1].burst_left)
         IN  /\ used > 0
             /\ Len(procs') = Len(procs)
             /\ \A k \in 1..Len(procs) :
                  /\ procs'[k].pid = procs[k].pid
                  /\ procs'[k].burst_left =
                        (IF k - 1 = c THEN procs[k].burst_left - used
                                      ELSE procs[k].burst_left)
                  /\ procs'[k].wait =
                        (IF k - 1 # c /\ procs[k].burst_left > 0
                         THEN procs[k].wait + used
                         ELSE procs[k].wait)]_vars

\* A direct call asked for more than the process had left: the process
\* finished, a runnable process waited for what was used and a finished
\* one did not wait.
C12_Witness ==
    /\ pc = "called" /\ op = "run_proc"
    /\ ValidTable
    /\ current \in 0..(plen - 1)
    /\ bursts[current + 1] > 0
    /\ amount > bursts[current + 1]
    /\ procs[current + 1].burst_left = 0
    /\ procs[current + 1].wait = 0
    /\ \E k \in 1..Len(procs) :
          k - 1 # current /\ procs[k].wait = bursts[current + 1]
    /\ \E k \in 1..Len(procs) :
          k - 1 # current /\ bursts[k] <= 0 /\ procs[k].wait = 0

(***************************************************************************)
(* C13                                                                     *)
(***************************************************************************)
\* C13: in every step of fcfs_run and of rr_run the sum of the burst_left
\* fields goes down by exactly the time the driver adds to its elapsed
\* time, so elapsed time + sum of burst_left stays what it was at entry.
C13_TimeMatchesBurstConsumed ==
    /\ [][(pc \in {"fcfs", "rr"}) =>
            (TotalLeft(procs) - TotalLeft(procs') = time' - time)]_vars
    /\ []((pc \in {"fcfs", "rr", "done"} /\ ValidTable) =>
            time + TotalLeft(procs) = SumSeq(bursts))

\* rr_run is in its loop with time elapsed, burst left and a table that
\* held bursts longer than the quantum.
C13_Witness ==
    /\ pc = "rr"
    /\ time > quantum
    /\ TotalLeft(procs) > 0
    /\ Len(trace) >= 2

(***************************************************************************)
(* C14                                                                     *)
(***************************************************************************)
\* C14: a process with burst_left = 0 is finished for the rest of the run:
\* no later step of fcfs_run or rr_run selects or runs it, its burst_left
\* stays 0 and its wait does not change.
C14_FinishedStaysFinished ==
    [][(pc \in {"fcfs", "rr"}) =>
         \A k \in 1..Len(procs) :
            procs[k].burst_left = 0 =>
               /\ procs'[k] = procs[k]
               /\ Len(trace') > Len(trace) => trace'[Len(trace')][1] # k - 1
               /\ pc = "rr" => sel' # k - 1]_vars

\* rr_run ran two slices of other processes after a process that had
\* waited finished, and is still in its loop.
C14_Witness ==
    /\ pc = "rr"
    /\ Len(trace) >= 3
    /\ \E k \in 1..Len(procs) :
          /\ bursts[k] > 0
          /\ procs[k].burst_left = 0
          /\ procs[k].wait > 0
          /\ trace[Len(trace)][1] # k - 1
          /\ trace[Len(trace) - 1][1] # k - 1
          /\ trace[Len(trace) - 2][1] = k - 1

(***************************************************************************)
(* C15                                                                     *)
(***************************************************************************)
\* burst_left of no process increases in a step on the same table.
BurstLeftNeverIncreases ==
    [][(procs # NULL /\ Len(procs') = Len(procs)) =>
         \A k \in 1..Len(procs) :
            procs'[k].burst_left <= procs[k].burst_left]_vars

\* C15 as stated: in every state, from construction on, every process has
\* burst_left >= 0, and burst_left never increases from a state to the next.
C15_NonNegativeNonIncreasing ==
    /\ [](\A k \in 1..Len(procs) : procs[k].burst_left >= 0)
    /\ BurstLeftNeverIncreases

\* C15 amended: in every state, from construction on, every process whose
\* original burst was non-negative has burst_left >= 0 and a process
\* whose original burst was negative keeps that burst_left, and burst_left
\* never increases from a state to the next.
C15_FlooredNonIncreasing ==
    /\ [](\A k \in 1..Len(procs) :
            IF bursts[k] >= 0 THEN procs[k].burst_left >= 0
                              ELSE procs[k].burst_left = bursts[k])
    /\ BurstLeftNeverIncreases

\* rr_run is in its loop on a table with a negative burst and a process
\* that has run part of its burst.
C15_Witness ==
    /\ pc = "rr"
    /\ \E k \in 1..Len(procs) : bursts[k] < 0
    /\ \E k \in 1..Len(procs) :
          procs[k].burst_left > 0 /\ procs[k].burst_left < bursts[k]

(***************************************************************************)
(* C16                                                                     *)
(***************************************************************************)
\* C16: in fcfs_run the processes run in strictly increasing index order;
\* every index that was unfinished is run exactly once, for its full
\* burst, reaching burst_left = 0, before any higher index starts; no
\* index is run a second time.
C16_FcfsOrder ==
    (op = "fcfs_run" /\ ValidTable) =>
        /\ \A n \in 1..Len(trace) :
              LET idx == trace[n][1] IN
              /\ idx \in 0..(i - 1)
              /\ trace[n][2] = bursts[idx + 1]
              /\ trace[n][2] > 0
              /\ procs[idx + 1].burst_left = 0
              /\ n > 1 => trace[n - 1][1] < idx
        /\ \A k \in 1..Len(procs) :
              IF k - 1 < i
              THEN bursts[k] > 0 => \E n \in 1..Len(trace) : trace[n][1] = k - 1
              ELSE procs[k].burst_left = bursts[k]
        /\ pc = "done" => i = plen

\* fcfs_run returned after running the first and the last of three
\* processes, the middle one being finished from the start.
C16_Witness ==
    /\ FcfsReturned
    /\ Len(procs) = 3
    /\ Len(trace) = 2
    /\ trace[1][1] = 0
    /\ trace[2][1] = 2

(***************************************************************************)
(* C17                                                                     *)
(***************************************************************************)
\* C17: every iteration of rr_run (quantum > 0) that does not leave the
\* loop runs the selected process for amount = min(quantum, burst_left),
\* with 1 <= amount <= quantum; the branch that continues without
\* advancing time, for a selected process with burst_left <= 0, is never
\* taken.
C17_RrSliceIsMinQuantumBurst ==
    /\ [][(pc = "rr" /\ pc' = "rr") =>
            /\ sel' \in 0..(plen - 1)
            /\ procs[sel' + 1].burst_left > 0
            /\ amount' = Min(quantum, procs[sel' + 1].burst_left)
            /\ 1 <= amount' /\ amount' <= quantum
            /\ trace' = Append(trace, <<sel', amount'>>)
            /\ time' = time + amount'
            /\ procs'[sel' + 1].burst_left
                  = procs[sel' + 1].burst_left - amount']_vars
    /\ [](pc = "rr" =>
            LET next == RrNext(current, procs, plen) IN
            next # -1 => procs[next + 1].burst_left > 0)

\* rr_run is in its loop after a full-quantum slice and a shorter one.
C17_Witness ==
    /\ pc = "rr"
    /\ quantum >= 2
    /\ \E n \in 1..Len(trace) : trace[n][2] = quantum
    /\ \E n \in 1..Len(trace) : trace[n][2] < quantum

(***************************************************************************)
(* C18                                                                     *)
(***************************************************************************)
\* C18: a process constructed with a negative burst is accepted by
\* init_procs (which refuses the table only when its allocation fails) and
\* then is as a finished process to fcfs_run, rr_run, rr_next and run_proc:
\* it is never selected or run, its wait stays 0, and its burst_left is
\* decremented at most once (in fact never: it keeps the value it was
\* constructed with).
C18_NegativeBurstIsFinished ==
    \A k \in 1..Len(bursts) :
        bursts[k] < 0 =>
            /\ procs = NULL <=> ~mallocs[Len(mallocs)]
            /\ procs # NULL =>
                  /\ Len(procs) = Len(bursts)
                  /\ procs[k] = [pid |-> k - 1, burst_left |-> bursts[k],
                                 wait |-> 0]
            /\ \A n \in 1..Len(trace) : trace[n][1] # k - 1
            /\ op \in {"rr_run", "rr_next"} => sel # k - 1

\* rr_run returned after several slices on a table whose first process was
\* constructed with a negative burst.
C18_Witness ==
    /\ RrReturned
    /\ bursts[1] < 0
    /\ Len(trace) >= 3

(***************************************************************************)
(* C19                                                                     *)
(***************************************************************************)
InDriver == pc \in {"fcfs", "rr", "done"} /\ ValidTable

\* C19: in every state of fcfs_run and rr_run, every unfinished process i
\* has wait[i] + (original burst[i] - burst_left[i]) = elapsed time; and
\* in the step in which process i finishes, its wait is its completion time
\* minus its original burst.
C19_NoIdleAccounting ==
    /\ [](InDriver =>
            \A k \in 1..Len(procs) :
               procs[k].burst_left > 0 =>
                  procs[k].wait + (bursts[k] - procs[k].burst_left) = time)
    /\ [][(pc \in {"fcfs", "rr"}) =>
            \A k \in 1..Len(procs) :
               (procs[k].burst_left > 0 /\ procs'[k].burst_left = 0) =>
                  procs'[k].wait = time' - bursts[k]]_vars

\* rr_run is in its loop on positive bursts: a process that waited has
\* finished and another one has both run and waited.
C19_Witness ==
    /\ pc = "rr"
    /\ \A k \in 1..Len(bursts) : bursts[k] > 0
    /\ \E k \in 1..Len(procs) :
          procs[k].burst_left = 0 /\ procs[k].wait > 0
    /\ \E k \in 1..Len(procs) :
          /\ procs[k].burst_left > 0
          /\ procs[k].burst_left < bursts[k]
          /\ procs[k].wait > 0

(***************************************************************************)
(* C20                                                                     *)
(***************************************************************************)
\* The position in trace of the last slice of process p (0: none).
LastSliceOf(p) ==
    IF \E n \in 1..Len(trace) : trace[n][1] = p
    THEN CHOOSE n \in 1..Len(trace) :
            /\ trace[n][1] = p
            /\ \A m \in (n + 1)..Len(trace) : trace[m][1] # p
    ELSE 0

\* The number of slices of process q in trace after position n.
SlicesAfter(q, n) ==
    Cardinality({m \in (n + 1)..Len(trace) : trace[m][1] = q})

\* C20: in rr_run a process gets two slices in a row only when no other
\* process has burst_left > 0; and when a process gets its next slice,
\* every other process that is still unfinished (so was unfinished all the
\* time since that process's previous slice) has received exactly one slice
\* in between.
C20_RoundRobinFairness ==
    [][(pc = "rr" /\ pc' = "rr" /\ Len(trace') = Len(trace) + 1) =>
         LET p == trace'[Len(trace')][1]
             last == LastSliceOf(p)
         IN  /\ (last # 0 /\ last = Len(trace)) =>
                   \A k \in 1..Len(procs) :
                      k - 1 # p => procs[k].burst_left <= 0
             /\ last # 0 =>
                   \A k \in 1..Len(procs) :
                      (k - 1 # p /\ procs[k].burst_left > 0) =>
                         SlicesAfter(k - 1, last) = 1]_vars

\* Three processes each got a slice before the first one got its second
\* slice.
C20_Witness ==
    /\ op = "rr_run"
    /\ Len(procs) = 3
    /\ Len(trace) >= 4
    /\ trace[1][1] = 0 /\ trace[2][1] = 1 /\ trace[3][1] = 2
    /\ trace[4][1] = 0

=============================================================================
